---- MODULE Spec2Model ----
(***************************************************************************)
(* Model of the ton-address codec (src/src/lib.rs): the Address value,     *)
(* its raw ("wc:hex") and Base64 (flag, workchain, hash, CRC16) text       *)
(* forms, and the parsers that read them back.                             *)
(*                                                                         *)
(* A string is a sequence of Unicode code points; its Rust length (len())  *)
(* is the length of its UTF-8 encoding.  A byte is a number in 0..255.     *)
(***************************************************************************)
EXTENDS Integers, Sequences, FiniteSets, TLC

(***************************************************************************)
(* Bounds of the model.                                                    *)
(***************************************************************************)
\* hash parts are drawn from the patterns 0..MaxSeed (see HashOf)
MaxSeed == 2
\* a caller cuts at most MaxCut characters off the end of a produced text
MaxCut == 2
\* a caller appends at most MaxExtra characters to a text
MaxExtra == 1

(***************************************************************************)
(* Program constants.                                                      *)
(***************************************************************************)
HashLen == 32
BufLen == 36
Base64Len == 48

(***************************************************************************)
(* Fixed-width integer helpers.                                            *)
(***************************************************************************)
\* bitwise exclusive or of two naturals below 2^n
RECURSIVE Xor(_, _, _)
Xor(a, b, n) ==
    IF n = 0 THEN 0
    ELSE (((a % 2) + (b % 2)) % 2) + 2 * Xor(a \div 2, b \div 2, n - 1)

I32Max == 2147483647
I32Min == (0 - I32Max) - 1

\* the low 31 bits of the two's complement pattern of an i32
Low31(w) == IF w < 0 THEN (w + I32Max) + 1 ELSE w

\* a narrowing that saturates at the ends of the u8 range
LowByte_Saturating(w) == IF w < 0 THEN 0 ELSE IF w > 255 THEN 255 ELSE w

\* (w & 0xFF) as u8
LowByte(w) == Low31(w) % 256

\* a widening that takes the byte as signed (i8 as i32)
WidenU8_SignExtend(b) == IF b > 127 THEN b - 256 ELSE b

\* b as i32, for a u8 b
WidenU8(b) == b

(***************************************************************************)
(* Characters used by the codec (code points).                             *)
(***************************************************************************)
ChPlus == 43
ChMinus == 45
ChSlash == 47
ChColon == 58
ChUnderscore == 95
ChZero == 48
ChUpperA == 65
ChLowerA == 97

Contains(str, c) == \E i \in 1..Len(str) : str[i] = c

\* str::len(): the number of bytes of the UTF-8 encoding
Utf8Bytes(c) ==
    IF c < 128 THEN <<c>>
    ELSE IF c < 2048 THEN <<192 + (c \div 64), 128 + (c % 64)>>
    ELSE IF c < 65536
         THEN <<224 + (c \div 4096), 128 + ((c \div 64) % 64), 128 + (c % 64)>>
         ELSE <<240 + (c \div 262144), 128 + ((c \div 4096) % 64),
                128 + ((c \div 64) % 64), 128 + (c % 64)>>

RECURSIVE AsBytes(_)
AsBytes(str) ==
    IF str = <<>> THEN <<>> ELSE Utf8Bytes(Head(str)) \o AsBytes(Tail(str))

StrLen(str) == Len(AsBytes(str))

(***************************************************************************)
(* crc16: CRC-16/XMODEM (poly 0x1021, init 0, no reflection, no xorout),   *)
(* computed byte by byte through the 256-entry table as the crc crate      *)
(* does.                                                                   *)
(***************************************************************************)
CrcPoly == 4129

RECURSIVE CrcShift(_, _)
CrcShift(v, n) ==
    IF n = 0 THEN v
    ELSE CrcShift(IF v >= 32768
                  THEN Xor((v * 2) % 65536, CrcPoly, 16)
                  ELSE (v * 2) % 65536, n - 1)

CrcTable == [b \in 0..255 |-> CrcShift(b * 256, 8)]

\* crc is a u16 at every step
RECURSIVE CrcUpdate(_, _, _)
CrcUpdate(crc, bytes, i) ==
    IF crc \notin 0..65535 \/ i > Len(bytes) THEN crc
    ELSE CrcUpdate(Xor(CrcTable[Xor(crc \div 256, bytes[i], 8)],
                       (crc * 256) % 65536, 16),
                   bytes, i + 1)

crc16(bytes) == CrcUpdate(0, bytes, 1)

(***************************************************************************)
(* The two Base64 alphabets (unpadded engines of the base64 crate).        *)
(***************************************************************************)
Decoders == {"Standard", "UrlSafe"}

Symbol(alphabet, v) ==
    IF v < 26 THEN ChUpperA + v
    ELSE IF v < 52 THEN ChLowerA + (v - 26)
    ELSE IF v < 62 THEN ChZero + (v - 52)
    ELSE IF v = 62 THEN (IF alphabet = "Standard" THEN ChPlus ELSE ChMinus)
    ELSE (IF alphabet = "Standard" THEN ChSlash ELSE ChUnderscore)

\* the decode table of an alphabet: the value of each byte, -1 for a byte
\* that is not a symbol of the alphabet
DecodeTable(alphabet) ==
    [b \in 0..255 |->
        IF \E v \in 0..63 : Symbol(alphabet, v) = b
        THEN CHOOSE v \in 0..63 : Symbol(alphabet, v) = b
        ELSE -1]

StandardTable == DecodeTable("Standard")
UrlSafeTable == DecodeTable("UrlSafe")

SymbolValue(alphabet, b) ==
    IF alphabet = "Standard" THEN StandardTable[b] ELSE UrlSafeTable[b]

\* Engine::encode without padding
RECURSIVE B64Encode(_, _)
B64Encode(alphabet, bytes) ==
    IF Len(bytes) = 0 THEN <<>>
    ELSE IF Len(bytes) = 1
    THEN <<Symbol(alphabet, bytes[1] \div 4),
           Symbol(alphabet, (bytes[1] % 4) * 16)>>
    ELSE IF Len(bytes) = 2
    THEN <<Symbol(alphabet, bytes[1] \div 4),
           Symbol(alphabet, ((bytes[1] % 4) * 16) + (bytes[2] \div 16)),
           Symbol(alphabet, (bytes[2] % 16) * 4)>>
    ELSE <<Symbol(alphabet, bytes[1] \div 4),
           Symbol(alphabet, ((bytes[1] % 4) * 16) + (bytes[2] \div 16)),
           Symbol(alphabet, ((bytes[2] % 16) * 4) + (bytes[3] \div 64)),
           Symbol(alphabet, bytes[3] % 64)>>
         \o B64Encode(alphabet, SubSeq(bytes, 4, Len(bytes)))

\* the bytes of a run of symbol values (whole quads, then a rest of 2 or 3)
RECURSIVE B64Bytes(_)
B64Bytes(vals) ==
    IF Len(vals) = 0 THEN <<>>
    ELSE IF Len(vals) = 2
    THEN <<(vals[1] * 4) + (vals[2] \div 16)>>
    ELSE IF Len(vals) = 3
    THEN <<(vals[1] * 4) + (vals[2] \div 16),
           ((vals[2] % 16) * 16) + (vals[3] \div 4)>>
    ELSE <<(vals[1] * 4) + (vals[2] \div 16),
           ((vals[2] % 16) * 16) + (vals[3] \div 4),
           ((vals[3] % 4) * 64) + vals[4]>>
         \o B64Bytes(SubSeq(vals, 5, Len(vals)))

\* Engine::decode without padding: the bytes, or a failure for an invalid
\* byte, an impossible length or non-zero trailing bits
B64Decode(alphabet, input) ==
    LET vals == [i \in 1..Len(input) |-> SymbolValue(alphabet, input[i])]
        n == Len(input)
    IN  IF \E i \in 1..n : vals[i] = -1 THEN [ok |-> FALSE]
        ELSE IF n % 4 = 1 THEN [ok |-> FALSE]
        ELSE IF n % 4 = 2 /\ vals[n] % 16 # 0 THEN [ok |-> FALSE]
        ELSE IF n % 4 = 3 /\ vals[n] % 4 # 0 THEN [ok |-> FALSE]
        ELSE [ok |-> TRUE, bytes |-> B64Bytes(vals)]

(***************************************************************************)
(* Results: Ok(value) and Err(ParseError {address, reason}).               *)
(***************************************************************************)
Ok(v) == [ok |-> TRUE, value |-> v]
ParseError(str, reason) ==
    [ok |-> FALSE, err |-> [address |-> str, reason |-> reason]]

\* the outcome of a call that panics (a failed expect, an index or a slice
\* out of range): no value and no ParseError
Panicked == [ok |-> FALSE, panic |-> TRUE]

\* an index or a slice of bytes that reaches up to the n-th byte
InBounds(bytes, n) == Len(bytes) >= n

ReasonRawFormat == "Invalid raw address string: wrong address format"
ReasonRawWorkchain ==
    "Invalid raw address string: workchain number is not a 32-bit integer"
ReasonRawHex == "Invalid raw address string: failed to decode hash part"
ReasonRawHashLen ==
    "Invalid raw address string: hash part length must be 32 bytes"
ReasonB64Len == "Invalid base64 address string: length must be 48 characters"
ReasonB64Decode == "Invalid base64 address string: base64 decode error"
ReasonB64Bytes ==
    "Invalid base64 address string: length of decoded bytes must be 36"
ReasonB64Flag == "Invalid base64 address string: invalid flag"
ReasonB64Crc == "Invalid base64 address string: CRC16 hashes do not match"

(***************************************************************************)
(* Base64Decoder                                                           *)
(***************************************************************************)
\* Base64Decoder::decode
decode(self, str) ==
    LET res == B64Decode(self, AsBytes(str))
    IN  IF res.ok THEN Ok(res.bytes) ELSE ParseError(str, ReasonB64Decode)

\* Base64Decoder::guess
guess(str) ==
    IF Contains(str, ChPlus) \/ Contains(str, ChSlash) THEN "Standard"
    ELSE IF Contains(str, ChMinus) \/ Contains(str, ChUnderscore)
    THEN "UrlSafe"
    ELSE "Standard"

(***************************************************************************)
(* Base64Encoder                                                           *)
(***************************************************************************)
Base64Encoder(alphabet, bounceable, production) ==
    [alphabet |-> alphabet, bounceable |-> bounceable,
     production |-> production]

Encoders ==
    {Base64Encoder(a, b, p) : a \in Decoders, b \in BOOLEAN, p \in BOOLEAN}

BASE64_STD_DEFAULT == Base64Encoder("Standard", TRUE, TRUE)
BASE64_URL_DEFAULT == Base64Encoder("UrlSafe", TRUE, TRUE)

\* the flag byte written by Base64Encoder::encode
EncodeFlag(bounceable, production) ==
    IF bounceable /\ production THEN 17
    ELSE IF bounceable /\ ~production THEN 81
    ELSE IF ~bounceable /\ production THEN 145
    ELSE 209

\* a buffer whose checksum is stored low byte first
EncodeBuffer_LittleEndianCrc(self, workchain, hash_part) ==
    LET head == <<EncodeFlag(self.bounceable, self.production),
                  LowByte(workchain)>> \o hash_part
        crc == crc16(SubSeq(head, 1, 34))
    IN  head \o <<crc % 256, (crc \div 256) % 256>>

\* the 36-byte buffer built by Base64Encoder::encode
EncodeBuffer(self, workchain, hash_part) ==
    LET head == <<EncodeFlag(self.bounceable, self.production),
                  LowByte(workchain)>> \o hash_part
        crc == crc16(SubSeq(head, 1, 34))
    IN  head \o <<(crc \div 256) % 256, crc % 256>>

\* Base64Encoder::encode
encode(self, workchain, hash_part) ==
    B64Encode(self.alphabet, EncodeBuffer(self, workchain, hash_part))

(***************************************************************************)
(* Address                                                                 *)
(***************************************************************************)
Address(workchain, hash_part) ==
    [workchain |-> workchain, hash_part |-> hash_part]

empty == Address(0, [i \in 1..HashLen |-> 0])

\* a reading of the flag byte by the table the encoder writes
DecodeFlag_AsEncoded(b) ==
    IF b = 17 THEN <<FALSE, FALSE>>
    ELSE IF b = 81 THEN <<TRUE, FALSE>>
    ELSE IF b = 145 THEN <<FALSE, TRUE>>
    ELSE IF b = 209 THEN <<TRUE, TRUE>>
    ELSE <<>>

\* the flags read from the flag byte by Address::from_base64
\* (a pair <<non_production, non_bounceable>>, <<>> for an illegal byte)
DecodeFlag(b) ==
    IF b = 17 THEN <<FALSE, FALSE>>
    ELSE IF b = 81 THEN <<FALSE, TRUE>>
    ELSE IF b = 145 THEN <<TRUE, FALSE>>
    ELSE IF b = 209 THEN <<TRUE, TRUE>>
    ELSE <<>>

\* a resolution that guesses even when an alphabet is given
Resolve_AlwaysGuess(address, encoder) == guess(address)

\* the alphabet Address::from_base64 decodes with (encoder is "None" or an
\* alphabet)
Resolve(address, encoder) ==
    IF encoder = "None" THEN guess(address) ELSE encoder

\* a length check that only rejects longer texts
HasBase64Len_AtMost(address) == StrLen(address) <= Base64Len

\* the length check of Address::from_base64
HasBase64Len(address) == StrLen(address) = Base64Len

\* Address::from_base64
from_base64(address, encoder) ==
    IF ~HasBase64Len(address) THEN ParseError(address, ReasonB64Len)
    ELSE
    LET enc == Resolve(address, encoder)
        dec == decode(enc, address)
    IN  IF ~dec.ok THEN dec
        ELSE
        LET bytes == dec.value
            flags == DecodeFlag(bytes[1])
        IN  IF Len(bytes) # BufLen THEN ParseError(address, ReasonB64Bytes)
            ELSE IF ~InBounds(bytes, 1) THEN Panicked
            ELSE IF flags = <<>> THEN ParseError(address, ReasonB64Flag)
            ELSE IF ~InBounds(bytes, BufLen) THEN Panicked
            ELSE IF crc16(SubSeq(bytes, 1, 34)) # (bytes[35] * 256) + bytes[36]
            THEN ParseError(address, ReasonB64Crc)
            ELSE Ok([address |-> Address(WidenU8(bytes[2]), SubSeq(bytes, 3, 34)),
                     non_bounceable |-> flags[2],
                     non_production |-> flags[1],
                     decoder |-> enc])

\* EncoderResult accessors
is_non_bounceable(r) == r.non_bounceable
is_non_production(r) == r.non_production
is_bounceable(r) == ~r.non_bounceable
is_production(r) == ~r.non_production

(***************************************************************************)
(* Decimal and hexadecimal text (i32 Display / FromStr, hex crate).        *)
(***************************************************************************)
RECURSIVE Digits(_)
Digits(n) ==
    IF n < 10 THEN <<ChZero + n>>
    ELSE Append(Digits(n \div 10), ChZero + (n % 10))

\* the decimal digits of the magnitude of n <= 0 (the magnitude of the
\* least i32 is not an i32, so the digits are taken from n itself)
RECURSIVE DigitsNeg(_)
DigitsNeg(n) ==
    LET m == n % 10
        last == IF m = 0 THEN 0 ELSE 10 - m
        quot == IF m = 0 THEN n \div 10 ELSE (n \div 10) + 1
    IN  IF n > -10 THEN <<ChZero - n>>
        ELSE Append(DigitsNeg(quot), ChZero + last)

\* a formatter that loses the sign
FormatI32_NoSign(w) == IF w < 0 THEN DigitsNeg(w) ELSE Digits(w)

\* format!("{}", workchain)
FormatI32(w) == IF w < 0 THEN <<ChMinus>> \o DigitsNeg(w) ELSE Digits(w)

IsDigit(b) == b >= ChZero /\ b <= ChZero + 9

\* the checked accumulation of str::parse::<i32>: one multiplication and
\* one addition (subtraction for a negative number) per digit, failing on
\* a non-digit or when the value leaves the i32 range
RECURSIVE Accumulate(_, _, _, _)
Accumulate(bytes, i, acc, positive) ==
    IF i > Len(bytes) THEN [ok |-> TRUE, value |-> acc]
    ELSE IF ~IsDigit(bytes[i]) THEN [ok |-> FALSE]
    ELSE LET d == bytes[i] - ChZero
         IN  IF positive
             THEN IF acc > I32Max \div 10 THEN [ok |-> FALSE]
                  ELSE IF acc * 10 > I32Max - d THEN [ok |-> FALSE]
                  ELSE Accumulate(bytes, i + 1, (acc * 10) + d, positive)
             ELSE IF acc < 0 - (I32Max \div 10) THEN [ok |-> FALSE]
                  ELSE IF acc * 10 < I32Min + d THEN [ok |-> FALSE]
                  ELSE Accumulate(bytes, i + 1, (acc * 10) - d, positive)

\* str::parse::<i32>
ParseI32(str) ==
    LET bytes == AsBytes(str)
    IN  IF Len(bytes) = 0 THEN [ok |-> FALSE]
        ELSE IF Len(bytes) = 1 /\ bytes[1] \in {ChPlus, ChMinus}
        THEN [ok |-> FALSE]
        ELSE IF bytes[1] = ChPlus THEN Accumulate(bytes, 2, 0, TRUE)
        ELSE IF bytes[1] = ChMinus THEN Accumulate(bytes, 2, 0, FALSE)
        ELSE Accumulate(bytes, 1, 0, TRUE)

HexDigit(v) == IF v < 10 THEN ChZero + v ELSE ChLowerA + (v - 10)

\* hex::encode
RECURSIVE HexEncode(_)
HexEncode(bytes) ==
    IF bytes = <<>> THEN <<>>
    ELSE <<HexDigit(Head(bytes) \div 16), HexDigit(Head(bytes) % 16)>>
         \o HexEncode(Tail(bytes))

\* value of a hexadecimal digit of either case, -1 for any other byte
HexValue(b) ==
    IF b >= ChUpperA /\ b <= ChUpperA + 5 THEN (b - ChUpperA) + 10
    ELSE IF b >= ChLowerA /\ b <= ChLowerA + 5 THEN (b - ChLowerA) + 10
    ELSE IF IsDigit(b) THEN b - ChZero
    ELSE -1

\* hex::decode
HexDecode(str) ==
    LET bytes == AsBytes(str)
    IN  IF Len(bytes) % 2 # 0 THEN [ok |-> FALSE]
        ELSE IF \E i \in 1..Len(bytes) : HexValue(bytes[i]) = -1
        THEN [ok |-> FALSE]
        ELSE [ok |-> TRUE,
              bytes |-> [i \in 1..(Len(bytes) \div 2) |->
                            (HexValue(bytes[(2 * i) - 1]) * 16)
                            + HexValue(bytes[2 * i])]]

\* a split at the first occurrence of c only (splitn(2, c))
Split_FirstOnly(str, c) ==
    IF ~Contains(str, c) THEN <<str>>
    ELSE LET i == CHOOSE k \in 1..Len(str) :
                     str[k] = c /\ \A j \in 1..(k - 1) : str[j] # c
         IN  <<SubSeq(str, 1, i - 1), SubSeq(str, i + 1, Len(str))>>

\* str::split(c): the segments between every occurrence of c
RECURSIVE Split(_, _)
Split(str, c) ==
    IF ~Contains(str, c) THEN <<str>>
    ELSE LET i == CHOOSE k \in 1..Len(str) :
                     str[k] = c /\ \A j \in 1..(k - 1) : str[j] # c
         IN  <<SubSeq(str, 1, i - 1)>> \o Split(SubSeq(str, i + 1, Len(str)), c)

\* a length check that only rejects longer hash parts
HasHashLen_AtMost(hash_part) == Len(hash_part) <= HashLen

\* the length check of Address::from_raw_address
HasHashLen(hash_part) == Len(hash_part) = HashLen

\* hash_part.as_slice().try_into().expect(..): the 32-byte array, or a panic
ToHashPart(bytes) == IF Len(bytes) = HashLen THEN Ok(bytes) ELSE Panicked

\* Address::from_raw_address
from_raw_address(str) ==
    LET parts == Split(str, ChColon)
    IN  IF Len(parts) # 2 THEN ParseError(str, ReasonRawFormat)
        ELSE
        LET wc == ParseI32(parts[1])
            hash_part == HexDecode(parts[2])
        IN  IF ~wc.ok THEN ParseError(str, ReasonRawWorkchain)
            ELSE IF ~hash_part.ok THEN ParseError(str, ReasonRawHex)
            ELSE IF ~HasHashLen(hash_part.bytes)
            THEN ParseError(str, ReasonRawHashLen)
            ELSE LET array == ToHashPart(hash_part.bytes)
                 IN  IF ~array.ok THEN array
                     ELSE Ok(Address(wc.value, array.value))

\* Address::to_raw_address
to_raw_address(self) ==
    FormatI32(self.workchain) \o <<ChColon>> \o HexEncode(self.hash_part)

\* Address::to_base64
to_base64(self, encoder) == encode(encoder, self.workchain, self.hash_part)

\* a dispatch on the length of the text instead of on ':'
from_str_ByLength(s) ==
    IF StrLen(s) # Base64Len THEN from_raw_address(s)
    ELSE LET r == from_base64(s, "None")
         IN  IF r.ok THEN Ok(r.value.address) ELSE r

\* impl FromStr for Address
from_str(s) ==
    IF Contains(s, ChColon) THEN from_raw_address(s)
    ELSE LET r == from_base64(s, "None")
         IN  IF r.ok THEN Ok(r.value.address) ELSE r

\* impl TryFrom<String> for Address
try_from(value) ==
    IF Contains(value, ChColon) THEN from_raw_address(value)
    ELSE LET r == from_base64(value, "None")
         IN  IF r.ok THEN Ok(r.value.address) ELSE r

\* impl Display for Address
to_string(self) == to_base64(self, BASE64_URL_DEFAULT)

(***************************************************************************)
(* The caller: it serialises an Address, may alter the text it got, and    *)
(* hands the text to one of the parsers.                                   *)
(***************************************************************************)
VARIABLES made, text, replaced, cut, extra, op, arg, res

vars == <<made, text, replaced, cut, extra, op, arg, res>>

Workchains == {0, 1, 255, 256, -1, I32Max, I32Min}

HashOf(seed) == [i \in 1..HashLen |-> (seed * ((37 * i) + 11)) % 256]

Addresses ==
    {Address(w, HashOf(k)) : w \in Workchains, k \in 0..MaxSeed}

\* characters a caller writes into a text: 'A', '9', '+', '-', ':', U+00E9
EditChars == {65, 57, ChPlus, ChMinus, ChColon, 233}
\* characters a caller appends to a text: 'A', ':', U+00E9
ExtraChars == {65, ChColon, 233}
\* positions a caller overwrites
EditPositions == {1, 2, 48}

NoResult == ParseError(<<>>, "")

Init ==
    /\ made = [by |-> "none", of |-> empty, enc |-> BASE64_STD_DEFAULT]
    /\ text = <<>>
    /\ replaced = FALSE
    /\ cut = 0
    /\ extra = 0
    /\ op = "none"
    /\ arg = "None"
    /\ res = NoResult

Fresh == made.by = "none" /\ op = "none" /\ cut = 0 /\ extra = 0 /\ ~replaced

\* addr.to_base64(encoder)
ToBase64(addr, encoder) ==
    /\ Fresh
    /\ made' = [by |-> "to_base64", of |-> addr, enc |-> encoder]
    /\ text' = to_base64(addr, encoder)
    /\ UNCHANGED <<replaced, cut, extra, op, arg, res>>

\* addr.to_raw_address()
ToRawAddress(addr) ==
    /\ Fresh
    /\ made' = [by |-> "to_raw_address", of |-> addr,
                enc |-> BASE64_STD_DEFAULT]
    /\ text' = to_raw_address(addr)
    /\ UNCHANGED <<replaced, cut, extra, op, arg, res>>

\* addr.to_string()
Display(addr) ==
    /\ Fresh
    /\ made' = [by |-> "to_string", of |-> addr, enc |-> BASE64_URL_DEFAULT]
    /\ text' = to_string(addr)
    /\ UNCHANGED <<replaced, cut, extra, op, arg, res>>

\* the caller overwrites one character of the text
Replace(i, c) ==
    /\ op = "none" /\ ~replaced /\ cut = 0 /\ extra = 0
    /\ i <= Len(text)
    /\ text[i] # c
    /\ text' = [text EXCEPT ![i] = c]
    /\ replaced' = TRUE
    /\ UNCHANGED <<made, cut, extra, op, arg, res>>

\* the caller drops the last character of the text
Truncate ==
    /\ op = "none" /\ ~replaced /\ extra = 0
    /\ cut < MaxCut
    /\ Len(text) > 0
    /\ text' = SubSeq(text, 1, Len(text) - 1)
    /\ cut' = cut + 1
    /\ UNCHANGED <<made, replaced, extra, op, arg, res>>

\* the caller appends a character to the text
Extend(c) ==
    /\ op = "none" /\ ~replaced
    /\ extra < MaxExtra
    /\ text' = Append(text, c)
    /\ extra' = extra + 1
    /\ UNCHANGED <<made, replaced, cut, op, arg, res>>

\* Address::from_base64(text, encoder)
FromBase64(encoder) ==
    /\ op = "none"
    /\ op' = "from_base64"
    /\ arg' = encoder
    /\ res' = from_base64(text, encoder)
    /\ UNCHANGED <<made, text, replaced, cut, extra>>

\* Address::from_raw_address(text)
FromRawAddress ==
    /\ op = "none"
    /\ op' = "from_raw_address"
    /\ res' = from_raw_address(text)
    /\ UNCHANGED <<made, text, replaced, cut, extra, arg>>

\* text.parse::<Address>()
FromStr ==
    /\ op = "none"
    /\ op' = "from_str"
    /\ res' = from_str(text)
    /\ UNCHANGED <<made, text, replaced, cut, extra, arg>>

\* Address::try_from(text)
TryFrom ==
    /\ op = "none"
    /\ op' = "try_from"
    /\ res' = try_from(text)
    /\ UNCHANGED <<made, text, replaced, cut, extra, arg>>

Next ==
    \/ \E addr \in Addresses, encoder \in Encoders : ToBase64(addr, encoder)
    \/ \E addr \in Addresses : ToRawAddress(addr)
    \/ \E addr \in Addresses : Display(addr)
    \/ \E i \in EditPositions, c \in EditChars : Replace(i, c)
    \/ Truncate
    \/ \E c \in ExtraChars : Extend(c)
    \/ \E encoder \in Decoders \cup {"None"} : FromBase64(encoder)
    \/ FromRawAddress
    \/ FromStr
    \/ TryFrom

Spec == Init /\ [][Next]_vars

TypeOK ==
    /\ made.by \in {"none", "to_base64", "to_raw_address", "to_string"}
    /\ op \in {"none", "from_base64", "from_raw_address", "from_str", "try_from"}
    /\ arg \in Decoders \cup {"None"}
    /\ cut \in 0..MaxCut
    /\ extra \in 0..MaxExtra
    /\ res.ok \in BOOLEAN

(***************************************************************************)
(* Properties.                                                             *)
(***************************************************************************)
\* the text is exactly what the serialiser produced
Pristine == ~replaced /\ cut = 0 /\ extra = 0

\* from_base64 has read back a text that to_base64 (or to_string) produced,
\* with the alphabet guessed or given as the one used to encode
DecodedBack ==
    /\ op = "from_base64"
    /\ made.by \in {"to_base64", "to_string"}
    /\ Pristine
    /\ arg \in {"None", made.enc.alphabet}

\* C1: decoding a text produced by to_base64 succeeds and reports the
\* bounceable and production flags that were used to encode it.
C1_FlagRoundTrip ==
    DecodedBack =>
        /\ res.ok
        /\ is_bounceable(res.value) = made.enc.bounceable
        /\ is_production(res.value) = made.enc.production

\* C2 (as stated): decoding a text produced by to_base64 succeeds and yields
\* the encoded address, for every workchain.
C2_AddressRoundTrip ==
    DecodedBack => res.ok /\ res.value.address = made.of

\* C2 (amended): decoding a text produced by to_base64 succeeds and yields
\* the encoded hash part; it yields the encoded workchain, hence the encoded
\* address, when the workchain is in 0..255.
C2_AddressRoundTripInByteRange ==
    DecodedBack =>
        /\ res.ok
        /\ res.value.address.hash_part = made.of.hash_part
        /\ made.of.workchain \in 0..255 => res.value.address = made.of

C2_Witness ==
    /\ DecodedBack
    /\ made.of = Address(255, HashOf(1))
    /\ res.ok
    /\ res.value.address = made.of

\* C3: parsing the raw text of an address yields that address, for every
\* workchain including the negative ones and both extremes.
C3_RawRoundTrip ==
    (op = "from_raw_address" /\ made.by = "to_raw_address" /\ Pristine) =>
        res = Ok(made.of)

C3_Witness ==
    /\ op = "from_raw_address"
    /\ made.by = "to_raw_address"
    /\ Pristine
    /\ made.of = Address(I32Min, HashOf(1))
    /\ res = Ok(made.of)

\* the flag byte of the text a successful from_base64 has decoded
FlagByte == B64Decode(res.value.decoder, AsBytes(text)).bytes[1]

\* the flag-byte table of the specification, read from the byte to
\* <<bounceable, production>>
TableRow(b) ==
    IF b = 17 THEN <<TRUE, TRUE>>
    ELSE IF b = 81 THEN <<TRUE, FALSE>>
    ELSE IF b = 145 THEN <<FALSE, TRUE>>
    ELSE <<FALSE, FALSE>>

\* C4 (as stated): a successful from_base64 reports, for flag byte 0x11,
\* 0x51, 0x91, 0xD1, (bounceable, production) = (T,T), (T,F), (F,T), (F,F).
C4_FlagsNegateTable ==
    (op = "from_base64" /\ res.ok) =>
        /\ FlagByte \in {17, 81, 145, 209}
        /\ <<is_bounceable(res.value), is_production(res.value)>>
               = TableRow(FlagByte)

\* C4 (amended): a successful from_base64 reports, for flag byte 0x11, 0x51,
\* 0x91, 0xD1, (bounceable, production) = (T,T), (F,T), (T,F), (F,F): bit
\* 0x40 of the flag byte is non_bounceable and bit 0x80 is non_production.
C4_FlagsFromBits ==
    (op = "from_base64" /\ res.ok) =>
        /\ FlagByte \in {17, 81, 145, 209}
        /\ is_non_bounceable(res.value) = ((FlagByte \div 64) % 2 = 1)
        /\ is_non_production(res.value) = ((FlagByte \div 128) % 2 = 1)
        /\ is_bounceable(res.value) = ~is_non_bounceable(res.value)
        /\ is_production(res.value) = ~is_non_production(res.value)

C4_Witness ==
    /\ op = "from_base64"
    /\ res.ok
    /\ FlagByte = 81
    /\ ~is_bounceable(res.value)
    /\ is_production(res.value)

\* CRC-16/XMODEM by its definition: each byte is added into the high half
\* of the register, which is then shifted left eight times, the polynomial
\* 0x1021 being subtracted whenever a one is shifted out
RECURSIVE XmodemCrc(_, _, _)
XmodemCrc(crc, bytes, i) ==
    IF crc \notin 0..65535 \/ i > Len(bytes) THEN crc
    ELSE XmodemCrc(CrcShift(Xor(crc, bytes[i] * 256, 16), 8), bytes, i + 1)

\* C5: the text to_base64 produces has 48 characters of the selected
\* alphabet and is the unpadded Base64 of 36 bytes: the flag byte of the
\* table, the low 8 bits of the workchain, the hash part, and the
\* CRC-16/XMODEM of those 34 bytes, high byte first.
C5_EncodesCanonicalBuffer ==
    (made.by = "to_base64" /\ Pristine) =>
        LET d == B64Decode(made.enc.alphabet, text)
            crc == XmodemCrc(0, SubSeq(d.bytes, 1, 34), 1)
        IN  /\ Len(text) = 48
            /\ \A i \in 1..Len(text) :
                   \E v \in 0..63 : text[i] = Symbol(made.enc.alphabet, v)
            /\ d.ok
            /\ Len(d.bytes) = 36
            /\ <<made.enc.bounceable, made.enc.production>>
                   = TableRow(d.bytes[1])
            /\ d.bytes[1] \in {17, 81, 145, 209}
            /\ d.bytes[2] = made.of.workchain % 256
            /\ SubSeq(d.bytes, 3, 34) = made.of.hash_part
            /\ d.bytes[35] = crc \div 256
            /\ d.bytes[36] = crc % 256
            /\ text = B64Encode(made.enc.alphabet, d.bytes)

C5_Witness ==
    /\ made.by = "to_base64"
    /\ Pristine
    /\ made.of = Address(-1, HashOf(2))
    /\ made.enc = Base64Encoder("UrlSafe", FALSE, TRUE)
    /\ Len(text) = 48
    /\ B64Decode("UrlSafe", text).bytes[1] = 145
    /\ B64Decode("UrlSafe", text).bytes[2] = 255

\* the alphabet the specification resolves for a text and an optional
\* explicit alphabet
SpecAlphabet(str, encoder) ==
    IF encoder # "None" THEN encoder
    ELSE IF \E i \in 1..Len(str) : str[i] \in {ChPlus, ChSlash}
    THEN "Standard"
    ELSE IF \E i \in 1..Len(str) : str[i] \in {ChMinus, ChUnderscore}
    THEN "UrlSafe"
    ELSE "Standard"

\* the outcome of from_base64 when the checks are made in the order
\* length, Base64 decoding, flag byte, checksum, on a text of n units
B64Outcome(str, encoder, n) ==
    LET d == B64Decode(SpecAlphabet(str, encoder), AsBytes(str))
    IN  IF n # 48 THEN ParseError(str, ReasonB64Len)
        ELSE IF ~d.ok THEN ParseError(str, ReasonB64Decode)
        ELSE IF d.bytes[1] \notin {17, 81, 145, 209}
        THEN ParseError(str, ReasonB64Flag)
        ELSE IF (d.bytes[35] * 256) + d.bytes[36]
                    # XmodemCrc(0, SubSeq(d.bytes, 1, 34), 1)
        THEN ParseError(str, ReasonB64Crc)
        ELSE [ok |-> TRUE]

\* C6: from_base64 reports the first violated precondition in the order:
\* the text has not exactly 48 characters, Base64 decoding fails, the flag
\* byte is illegal, the checksum differs; it succeeds when none holds.
C6_FirstViolatedPrecondition ==
    op = "from_base64" =>
        LET want == B64Outcome(text, arg, Len(text))
        IN  IF want.ok THEN res.ok ELSE res = want

\* the positions of ':' in the text
Colons == {i \in 1..Len(text) : text[i] = ChColon}

\* the outcome of from_raw_address when the workchain is what precedes the
\* colon at position i and the hash what follows it, checked in the order
\* workchain, hexadecimal digits, length
RawOutcome(str, i) ==
    LET wc == ParseI32(SubSeq(str, 1, i - 1))
        hash == HexDecode(SubSeq(str, i + 1, Len(str)))
    IN  IF ~wc.ok THEN ParseError(str, ReasonRawWorkchain)
        ELSE IF ~hash.ok THEN ParseError(str, ReasonRawHex)
        ELSE IF Len(hash.bytes) # 32 THEN ParseError(str, ReasonRawHashLen)
        ELSE Ok(Address(wc.value, hash.bytes))

\* C7 (as stated): from_raw_address splits at the first ':' only; a text
\* without ':' has the wrong format, any other text goes on to the
\* workchain, hexadecimal and length checks, in that order.
C7_SplitsAtFirstColon ==
    op = "from_raw_address" =>
        res = IF Colons = {} THEN ParseError(text, ReasonRawFormat)
              ELSE RawOutcome(text, CHOOSE i \in Colons :
                                        \A j \in Colons : i <= j)

\* C7 (amended): from_raw_address splits at every ':'; a text that has not
\* exactly one ':' has the wrong format, any other text goes on to the
\* workchain, hexadecimal and length checks, in that order.
C7_SplitsAtEveryColon ==
    op = "from_raw_address" =>
        res = IF Cardinality(Colons) # 1 THEN ParseError(text, ReasonRawFormat)
              ELSE RawOutcome(text, CHOOSE i \in Colons : TRUE)

C7_Witness ==
    /\ op = "from_raw_address"
    /\ Cardinality(Colons) = 2
    /\ ParseI32(SubSeq(text, 1, 1)).ok
    /\ res = ParseError(text, ReasonRawFormat)

\* the characters of an alphabet
Symbols(alphabet) == {Symbol(alphabet, v) : v \in 0..63}

\* C8: from_base64 decodes with the alphabet given explicitly, whatever the
\* text contains (a character foreign to it is a decode error); without
\* one it decodes with the standard alphabet if the text has '+' or '/',
\* else the URL-safe one if it has '-' or '_', else the standard one; a
\* successful result records the alphabet it decoded with.
C8_AlphabetResolution ==
    (op = "from_base64" /\ StrLen(text) = 48) =>
        LET used == SpecAlphabet(text, arg)
            foreign == \E i \in 1..Len(text) : text[i] \notin Symbols(used)
        IN  /\ res.ok => res.value.decoder = used
            /\ foreign => res = ParseError(text, ReasonB64Decode)
            /\ ~foreign => (res.ok \/ res.err.reason # ReasonB64Decode)

C8_Witness ==
    /\ op = "from_base64"
    /\ arg = "Standard"
    /\ made.by = "to_base64"
    /\ made.enc.alphabet = "UrlSafe"
    /\ Pristine
    /\ \E i \in 1..Len(text) : text[i] \in {ChMinus, ChUnderscore}
    /\ res = ParseError(text, ReasonB64Decode)

\* C9: decoding a text produced by to_base64 yields the workchain modulo
\* 256, a value in 0..255, which is the encoded workchain exactly when that
\* is in 0..255.
C9_WorkchainLowByte ==
    DecodedBack =>
        /\ res.ok
        /\ res.value.address.workchain = made.of.workchain % 256
        /\ res.value.address.workchain \in 0..255
        /\ (res.value.address.workchain = made.of.workchain)
               <=> (made.of.workchain \in 0..255)

C9_Witness ==
    /\ DecodedBack
    /\ made.of.workchain = -1
    /\ res.ok
    /\ res.value.address.workchain = 255

\* C10: parse and try_from give the outcome of from_raw_address when the
\* text contains ':' and otherwise that of from_base64 with the alphabet
\* guessed, reduced to the Address on success.
C10_DispatchOnColon ==
    op \in {"from_str", "try_from"} =>
        IF Colons # {}
        THEN /\ res = from_raw_address(text)
             /\ res.ok \/ res.err.reason \in
                    {ReasonRawFormat, ReasonRawWorkchain, ReasonRawHex,
                     ReasonRawHashLen}
        ELSE LET r == from_base64(text, "None")
             IN  /\ res.ok = r.ok
                 /\ r.ok => res = Ok(r.value.address)
                 /\ ~r.ok => res = r
                 /\ res.ok \/ res.err.reason \in
                        {ReasonB64Len, ReasonB64Decode, ReasonB64Bytes,
                         ReasonB64Flag, ReasonB64Crc}

C10_Witness ==
    /\ op = "from_str"
    /\ Colons = {}
    /\ StrLen(text) = 48
    /\ res.ok
    /\ DOMAIN res.value = {"workchain", "hash_part"}

\* the reasons a ParseError carries
Reasons ==
    {ReasonRawFormat, ReasonRawWorkchain, ReasonRawHex, ReasonRawHashLen,
     ReasonB64Len, ReasonB64Decode, ReasonB64Bytes, ReasonB64Flag,
     ReasonB64Crc}

\* C11: every parsing operation ends in a success or in a ParseError that
\* carries the input text verbatim and one of the nine reasons; none
\* panics, so no array conversion or slice is reached with a wrong length.
C11_TypedOutcome ==
    op # "none" =>
        \/ /\ res.ok
           /\ DOMAIN res = {"ok", "value"}
        \/ /\ ~res.ok
           /\ DOMAIN res = {"ok", "err"}
           /\ res.err.address = text
           /\ res.err.reason \in Reasons

C11_Witness ==
    /\ op = "from_raw_address"
    /\ cut = 2
    /\ Cardinality(Colons) = 1
    /\ res = ParseError(text, ReasonRawHashLen)

\* C12: from_base64 never fails for the length of the decoded bytes: a text
\* of 48 bytes that decodes under either alphabet decodes to 36 bytes.
C12_DecodedLengthRedundant ==
    op \in {"from_base64", "from_str", "try_from"} =>
        /\ res.ok \/ res.err.reason # ReasonB64Bytes
        /\ StrLen(text) = 48 =>
               \A a \in Decoders :
                   LET d == B64Decode(a, AsBytes(text))
                   IN  d.ok => Len(d.bytes) = 36

C12_Witness ==
    /\ op = "from_base64"
    /\ replaced
    /\ StrLen(text) = 48
    /\ B64Decode(SpecAlphabet(text, arg), AsBytes(text)).ok
    /\ ~res.ok
    /\ res.err.reason = ReasonB64Crc

====
